---- MODULE Spec2Model ----
(***************************************************************************)
(* Numeric tower (src/src/arith.rs) and character/string constructors      *)
(* (src/src/character.rs) of the rune runtime.                             *)
(*                                                                         *)
(* Machine integers are i64 and floats are f64 in the source.  The model   *)
(* keeps the shape of both formats at a reduced width: a machine word has  *)
(* WordBits bits (two's complement), the fixnum range is the word range    *)
(* shifted right by TagBits exactly as in the source, and a float has      *)
(* WordBits - ExpBits bits of precision (64 - 11 = 53 for f64) with        *)
(* round-to-nearest, ties-to-even.  A finite float is stored as an integer *)
(* count q of quanta of 2^-FracBits; the sign of zero is not represented.  *)
(***************************************************************************)
EXTENDS Integers, Sequences, FiniteSets, TLC

VARIABLES overflow_checks, call, number, numbers, ints, multibyte, result

vars == <<overflow_checks, call, number, numbers, ints, multibyte, result>>

----------------------------------------------------------------------------
(* Bounds of the model *)

WordBits == 17

FracBits == 3

MaxArgs == 2

MaxLength == 2

----------------------------------------------------------------------------
(* Machine formats *)

TagBits == 8

ExpBits == 11

RECURSIVE Pow2(_)
Pow2(n) == IF n <= 0 THEN 1 ELSE 2 * Pow2(n - 1)

I64_MAX == Pow2(WordBits - 1) - 1

I64_MIN == -Pow2(WordBits - 1)

MAX_FIXNUM == I64_MAX \div Pow2(TagBits)

MIN_FIXNUM == I64_MIN \div Pow2(TagBits)

MantBits == WordBits - ExpBits

FUnit == Pow2(FracBits)

Abs(x) == IF x < 0 THEN -x ELSE x

Sign(x) == IF x < 0 THEN -1 ELSE 1

\* Rust's `/` and `%` on integers truncate toward zero.
TruncDiv(a, b) == Sign(a) * Sign(b) * (Abs(a) \div Abs(b))

TruncRem(a, b) == a - b * TruncDiv(a, b)

\* two's complement wrap-around of a mathematical integer to the word
WrapI64(x) == ((x - I64_MIN) % Pow2(WordBits)) + I64_MIN

InI64(x) == I64_MIN <= x /\ x <= I64_MAX

----------------------------------------------------------------------------
(* NumberValue *)

N_Int(x) == [tag |-> "Int", cls |-> "fin", v |-> x]

N_Big(x) == [tag |-> "Big", cls |-> "fin", v |-> x]

N_Float(f) == [tag |-> "Float", cls |-> f.cls, v |-> f.v]

\* an aborted evaluation (Rust panic) in place of a NumberValue
Panicked == [tag |-> "Panic", cls |-> "fin", v |-> 0]

\* payload of a Float
Fin(q) == [cls |-> "fin", v |-> q]

NaN == [cls |-> "nan", v |-> 0]

Infinity(s) == [cls |-> IF s < 0 THEN "ninf" ELSE "pinf", v |-> 0]

f64_of(n) == [cls |-> n.cls, v |-> n.v]

\* outcome of a machine or bignum operator: a value, or a panic
Ok(x) == [ok |-> TRUE, v |-> x]

Abort == [ok |-> FALSE, v |-> 0]

----------------------------------------------------------------------------
(* f64 *)

RECURSIVE QuantumExp(_, _)
QuantumExp(m, e) == IF m < Pow2(MantBits + e) THEN e ELSE QuantumExp(m, e + 1)

\* n/d quanta (d > 0) rounded to the nearest representable float,
\* ties to the even significand
RoundQ(n, d) ==
    LET a == Abs(n)
        u == d * Pow2(QuantumExp(a \div d, 0))
        f == a \div u
        r == a % u
        m == IF 2 * r < u THEN f
             ELSE IF 2 * r > u THEN f + 1
             ELSE IF f % 2 = 0 THEN f ELSE f + 1
    IN  Sign(n) * m * (u \div d)

Representable(q) == RoundQ(q, 1) = q

\* `x as f64` for an i64, and BigInt::to_f64 (always Some)
i64_as_f64(x) == Fin(RoundQ(x * FUnit, 1))

BigInt_to_f64(x) == Fin(RoundQ(x * FUnit, 1))

\* `x as i64` for an f64: truncation toward zero, saturating, NaN to 0
f64_as_i64(f) ==
    CASE f.cls = "nan" -> 0
      [] f.cls = "pinf" -> I64_MAX
      [] f.cls = "ninf" -> I64_MIN
      [] OTHER -> LET t == TruncDiv(f.v, FUnit)
                  IN  IF t > I64_MAX THEN I64_MAX
                      ELSE IF t < I64_MIN THEN I64_MIN ELSE t

\* BigInt::from_f64(x).unwrap_or_else(BigInt::zero)
BigInt_from_f64_or_zero(f) == IF f.cls = "fin" THEN TruncDiv(f.v, FUnit) ELSE 0

is_finite(f) == f.cls = "fin"

FSign(f) == CASE f.cls = "pinf" -> 1 [] f.cls = "ninf" -> -1 [] OTHER -> Sign(f.v)

f64_neg(f) ==
    CASE f.cls = "nan" -> NaN
      [] f.cls = "pinf" -> Infinity(-1)
      [] f.cls = "ninf" -> Infinity(1)
      [] OTHER -> Fin(-f.v)

f64_add(l, r) ==
    CASE l.cls = "nan" \/ r.cls = "nan" -> NaN
      [] l.cls # "fin" /\ r.cls # "fin" -> IF l.cls = r.cls THEN l ELSE NaN
      [] l.cls # "fin" -> l
      [] r.cls # "fin" -> r
      [] OTHER -> Fin(RoundQ(l.v + r.v, 1))

f64_sub(l, r) == f64_add(l, f64_neg(r))

f64_mul(l, r) ==
    CASE l.cls = "nan" \/ r.cls = "nan" -> NaN
      [] l.cls # "fin" \/ r.cls # "fin" ->
            IF (l.cls = "fin" /\ l.v = 0) \/ (r.cls = "fin" /\ r.v = 0)
            THEN NaN ELSE Infinity(FSign(l) * FSign(r))
      [] OTHER -> Fin(RoundQ(l.v * r.v, FUnit))

f64_div(l, r) ==
    CASE l.cls = "nan" \/ r.cls = "nan" -> NaN
      [] l.cls # "fin" /\ r.cls # "fin" -> NaN
      [] l.cls # "fin" -> Infinity(FSign(l) * FSign(r))
      [] r.cls # "fin" -> Fin(0)
      [] r.v = 0 -> IF l.v = 0 THEN NaN ELSE Infinity(FSign(l))
      [] OTHER -> Fin(RoundQ(Sign(r.v) * l.v * FUnit, Abs(r.v)))

f64_rem(l, r) ==
    CASE l.cls = "nan" \/ r.cls = "nan" -> NaN
      [] l.cls # "fin" -> NaN
      [] r.cls # "fin" -> l
      [] r.v = 0 -> NaN
      [] OTHER -> Fin(TruncRem(l.v, r.v))

\* position of a float on the extended real line, for ordering
FKey(f) == CASE f.cls = "pinf" -> 1 [] f.cls = "ninf" -> -1 [] OTHER -> 0

Ordering(a, b) == IF a < b THEN "Less" ELSE IF a > b THEN "Greater" ELSE "Equal"

f64_partial_cmp(l, r) ==
    IF l.cls = "nan" \/ r.cls = "nan" THEN "None"
    ELSE IF FKey(l) # FKey(r) THEN Ordering(FKey(l), FKey(r))
    ELSE IF l.cls = "fin" THEN Ordering(l.v, r.v) ELSE "Equal"

f64_eq(l, r) == f64_partial_cmp(l, r) = "Equal"

\* float_cmp's ulps(): distance of the two bit patterns read as integers.
\* Ordinal of a non-negative finite float among the representable ones.
FOrdinal(q) ==
    LET e == QuantumExp(q, 0)
    IN  IF e = 0 THEN q
        ELSE Pow2(MantBits) + (e - 1) * Pow2(MantBits - 1)
             + ((q \div Pow2(e)) - Pow2(MantBits - 1))

\* n.approx_eq(other, (f64::EPSILON, 2)): equal, or within EPSILON, or
\* within 2 ulps (same sign only, the bit patterns being sign-magnitude)
\* NaN has a single bit pattern here, so it is 0 ulps away from itself
approx_eq(l, r) ==
    \/ f64_eq(l, r)
    \/ /\ l.cls = "fin" /\ r.cls = "fin"
       /\ \/ Abs(l.v - r.v) * Pow2(MantBits - 1) <= FUnit
          \/ /\ (l.v >= 0) = (r.v >= 0)
             /\ Abs(FOrdinal(Abs(l.v)) - FOrdinal(Abs(r.v))) <= 2
    \/ l.cls = "nan" /\ r.cls = "nan"

----------------------------------------------------------------------------
(* i64 and BigInt operators handed to arith *)

\* +, -, * on i64 panic on overflow when the build has overflow checks
\* (debug profile) and wrap otherwise (release profile)
Checked(x) ==
    IF InI64(x) THEN Ok(x)
    ELSE IF overflow_checks THEN Abort ELSE Ok(WrapI64(x))

i64_add(l, r) == Checked(l + r)

i64_sub(l, r) == Checked(l - r)

i64_mul(l, r) == Checked(l * r)

i64_neg(x) == Checked(-x)

\* / and % on i64 panic on a zero divisor and on MIN / -1 in every build
i64_div(l, r) ==
    IF r = 0 \/ (l = I64_MIN /\ r = -1) THEN Abort ELSE Ok(TruncDiv(l, r))

i64_rem(l, r) ==
    IF r = 0 \/ (l = I64_MIN /\ r = -1) THEN Abort ELSE Ok(TruncRem(l, r))

big_add(l, r) == Ok(l + r)

big_sub(l, r) == Ok(l - r)

big_mul(l, r) == Ok(l * r)

\* BigInt division and remainder panic on a zero divisor
big_div(l, r) == IF r = 0 THEN Abort ELSE Ok(TruncDiv(l, r))

big_rem(l, r) == IF r = 0 THEN Abort ELSE Ok(TruncRem(l, r))

IntOf(o) == IF o.ok THEN N_Int(o.v) ELSE Panicked

BigOf(o) == IF o.ok THEN N_Big(o.v) ELSE Panicked

----------------------------------------------------------------------------
(* NumberValue::coerce_integer *)

coerce_integer(self) ==
    CASE self.tag = "Float" ->
            LET x == f64_of(self)
            IN  IF /\ is_finite(x)
                   /\ f64_partial_cmp(x, i64_as_f64(MAX_FIXNUM)) \in {"Less", "Equal"}
                   /\ f64_partial_cmp(x, i64_as_f64(MIN_FIXNUM)) \in {"Greater", "Equal"}
                THEN N_Int(f64_as_i64(x))
                ELSE N_Big(BigInt_from_f64_or_zero(x))
      [] self.tag = "Big" ->
            IF InI64(self.v) /\ MIN_FIXNUM <= self.v /\ self.v <= MAX_FIXNUM
            THEN N_Int(self.v)
            ELSE N_Big(self.v)
      [] OTHER -> self

----------------------------------------------------------------------------
(* arith: the promotion table *)

\* A function pointer is the name of the function it points to; the three
\* operators below call through a pointer of type fn(i64, i64) -> i64,
\* fn(f64, f64) -> f64 and fn(BigInt, BigInt) -> BigInt.
int_call(fn, l, r) ==
    CASE fn = "Add::add" -> i64_add(l, r)
      [] fn = "Sub::sub" -> i64_sub(l, r)
      [] fn = "Mul::mul" -> i64_mul(l, r)
      [] fn = "Div::div" -> i64_div(l, r)
      [] fn = "Rem::rem" -> i64_rem(l, r)

float_call(fn, l, r) ==
    CASE fn = "Add::add" -> f64_add(l, r)
      [] fn = "Sub::sub" -> f64_sub(l, r)
      [] fn = "Mul::mul" -> f64_mul(l, r)
      [] fn = "Div::div" -> f64_div(l, r)
      [] fn = "Rem::rem" -> f64_rem(l, r)

big_call(fn, l, r) ==
    CASE fn = "Add::add" -> big_add(l, r)
      [] fn = "Sub::sub" -> big_sub(l, r)
      [] fn = "Mul::mul" -> big_mul(l, r)
      [] fn = "Div::div" -> big_div(l, r)
      [] fn = "Rem::rem" -> big_rem(l, r)

\* arith with the operands of the Big/Int pairing handed over in reverse
arith_swapped(cur, next, int_fn, float_fn, big_fn) ==
    CASE cur.tag = "Panic" \/ next.tag = "Panic" -> Panicked
      [] cur.tag = "Int" /\ next.tag = "Int" -> IntOf(int_call(int_fn, cur.v, next.v))
      [] cur.tag = "Big" /\ next.tag = "Int" -> BigOf(big_call(big_fn, next.v, cur.v))
      [] cur.tag \in {"Int", "Big"} /\ next.tag \in {"Int", "Big"} ->
            BigOf(big_call(big_fn, cur.v, next.v))
      [] OTHER ->
            N_Float(float_call(float_fn,
                IF cur.tag = "Float" THEN f64_of(cur) ELSE i64_as_f64(cur.v),
                IF next.tag = "Float" THEN f64_of(next) ELSE i64_as_f64(next.v)))

arith(cur, next, int_fn, float_fn, big_fn) ==
    CASE cur.tag = "Panic" \/ next.tag = "Panic" -> Panicked
      [] cur.tag = "Int" /\ next.tag = "Int" ->
            IntOf(int_call(int_fn, cur.v, next.v))
      [] cur.tag = "Int" /\ next.tag = "Float" ->
            N_Float(float_call(float_fn, i64_as_f64(cur.v), f64_of(next)))
      [] cur.tag = "Float" /\ next.tag = "Int" ->
            N_Float(float_call(float_fn, f64_of(cur), i64_as_f64(next.v)))
      [] cur.tag = "Float" /\ next.tag = "Float" ->
            N_Float(float_call(float_fn, f64_of(cur), f64_of(next)))
      [] cur.tag = "Int" /\ next.tag = "Big" ->
            BigOf(big_call(big_fn, cur.v, next.v))
      [] cur.tag = "Big" /\ next.tag = "Int" ->
            BigOf(big_call(big_fn, cur.v, next.v))
      [] cur.tag = "Big" /\ next.tag = "Big" ->
            BigOf(big_call(big_fn, cur.v, next.v))
      [] cur.tag = "Float" /\ next.tag = "Big" ->
            N_Float(float_call(float_fn, f64_of(cur), BigInt_to_f64(next.v)))
      [] cur.tag = "Big" /\ next.tag = "Float" ->
            N_Float(float_call(float_fn, BigInt_to_f64(cur.v), f64_of(next)))

Neg_neg(self) ==
    CASE self.tag = "Int" -> IntOf(i64_neg(self.v))
      [] self.tag = "Float" -> N_Float(f64_neg(f64_of(self)))
      [] self.tag = "Big" -> N_Big(-self.v)
      [] OTHER -> Panicked

Add_add(self, rhs) == arith(self, rhs, "Add::add", "Add::add", "Add::add")

Sub_sub(self, rhs) == arith(self, rhs, "Sub::sub", "Sub::sub", "Sub::sub")

Mul_mul(self, rhs) == arith(self, rhs, "Mul::mul", "Mul::mul", "Mul::mul")

Div_div(self, rhs) == arith(self, rhs, "Div::div", "Div::div", "Div::div")

Rem_rem(self, rhs) == arith(self, rhs, "Rem::rem", "Rem::rem", "Rem::rem")

----------------------------------------------------------------------------
(* PartialEq<i64>, PartialEq<f64>, PartialEq<BigInt> for Number *)

\* eq_i64 that tells the variants apart: a Big never equals an i64
eq_i64_by_variant(self, other) ==
    CASE self.tag = "Int" -> self.v = other
      [] self.tag = "Float" -> f64_eq(f64_of(self), i64_as_f64(other))
      [] OTHER -> FALSE

eq_i64(self, other) ==
    CASE self.tag = "Int" -> self.v = other
      [] self.tag = "Float" -> f64_eq(f64_of(self), i64_as_f64(other))
      [] OTHER -> self.v = other

eq_f64(self, other) ==
    CASE self.tag = "Int" -> f64_eq(i64_as_f64(self.v), other)
      [] self.tag = "Float" -> approx_eq(f64_of(self), other)
      [] OTHER -> approx_eq(BigInt_to_f64(self.v), other)

eq_BigInt(self, other) ==
    CASE self.tag = "Int" -> self.v = other
      [] self.tag = "Float" -> approx_eq(BigInt_to_f64(other), f64_of(self))
      [] OTHER -> self.v = other

(* PartialOrd for NumberValue *)

partial_cmp(self, other) ==
    CASE self.tag = "Int" /\ other.tag = "Int" -> Ordering(self.v, other.v)
      [] self.tag = "Int" /\ other.tag = "Float" ->
            f64_partial_cmp(i64_as_f64(self.v), f64_of(other))
      [] self.tag = "Int" /\ other.tag = "Big" -> Ordering(self.v, other.v)
      [] self.tag = "Float" /\ other.tag = "Int" ->
            f64_partial_cmp(f64_of(self), i64_as_f64(other.v))
      [] self.tag = "Float" /\ other.tag = "Float" ->
            f64_partial_cmp(f64_of(self), f64_of(other))
      [] self.tag = "Float" /\ other.tag = "Big" ->
            f64_partial_cmp(f64_of(self), BigInt_to_f64(other.v))
      [] self.tag = "Big" /\ other.tag = "Int" -> Ordering(self.v, other.v)
      [] self.tag = "Big" /\ other.tag = "Float" ->
            f64_partial_cmp(BigInt_to_f64(self.v), f64_of(other))
      [] self.tag = "Big" /\ other.tag = "Big" -> Ordering(self.v, other.v)

lt(a, b) == partial_cmp(a, b) = "Less"

le(a, b) == partial_cmp(a, b) \in {"Less", "Equal"}

gt(a, b) == partial_cmp(a, b) = "Greater"

ge(a, b) == partial_cmp(a, b) \in {"Greater", "Equal"}

----------------------------------------------------------------------------
(* The arithmetic defuns *)

\* Iterator::fold; a panic in the closure ends the evaluation
\* max_val that keeps the running extreme on a tie
max_val_keep_first(x, y) == IF ge(x, y) THEN x ELSE y

max_val(x, y) == IF gt(x, y) THEN x ELSE y

min_val(x, y) == IF lt(x, y) THEN x ELSE y

\* the closure a reducer hands to fold
closure_call(f, acc, x) ==
    CASE f = "acc + x" -> Add_add(acc, x)
      [] f = "acc - x" -> Sub_sub(acc, x)
      [] f = "acc * x" -> Mul_mul(acc, x)
      [] f = "acc / x" -> Div_div(acc, x)
      [] f = "max_val" -> max_val(acc, x)
      [] f = "min_val" -> min_val(acc, x)

fold(s, init, f) ==
    LET acc[i \in 0..Len(s)] ==
            IF i = 0 THEN init
            ELSE LET prev == acc[i - 1]
                 IN  IF prev.tag = "Panic" THEN prev ELSE closure_call(f, prev, s[i])
    IN  acc[Len(s)]

\* Option<Number>::None
None == [tag |-> "None", cls |-> "fin", v |-> 0]

add(vars_) == fold(vars_, N_Int(0), "acc + x")

\* sub without the single-operand negation
sub_fold_only(num, nums) ==
    IF num = None THEN N_Int(0) ELSE fold(nums, num, "acc - x")

sub(num, nums) ==
    IF num = None THEN N_Int(0)
    ELSE IF nums = <<>> THEN Neg_neg(num)
    ELSE fold(nums, num, "acc - x")

mul(nums) == fold(nums, N_Int(1), "acc * x")

div(num, divisors) == fold(divisors, num, "acc / x")

add_one(num) == Add_add(num, N_Int(1))

sub_one(num) == Sub_sub(num, N_Int(1))

RECURSIVE all_eq(_, _)
all_eq(nums, lead) ==
    \/ nums = <<>>
    \/ /\ CASE lead.tag = "Int" -> eq_i64(Head(nums), lead.v)
            [] lead.tag = "Float" -> eq_f64(Head(nums), f64_of(lead))
            [] OTHER -> eq_BigInt(Head(nums), lead.v)
       /\ all_eq(Tail(nums), lead)

RECURSIVE all_ne(_, _)
all_ne(nums, lead) ==
    \/ nums = <<>>
    \/ /\ ~ CASE lead.tag = "Int" -> eq_i64(Head(nums), lead.v)
              [] lead.tag = "Float" -> eq_f64(Head(nums), f64_of(lead))
              [] OTHER -> eq_BigInt(Head(nums), lead.v)
       /\ all_ne(Tail(nums), lead)

num_eq(num, nums) == all_eq(nums, num)

num_ne(num, nums) == all_ne(nums, num)

\* try_fold(number.val(), |acc, &x| cmp(&acc, &x.val()).then_some(Int(0)))
\* the accumulator is Some(value) or None; None ends the fold
\* the comparison function cmp is given
rel_call(rel, a, b) ==
    CASE rel = "NumberValue::lt" -> lt(a, b)
      [] rel = "NumberValue::le" -> le(a, b)
      [] rel = "NumberValue::gt" -> gt(a, b)
      [] rel = "NumberValue::ge" -> ge(a, b)

try_fold(s, init, rel) ==
    LET acc[i \in 0..Len(s)] ==
            IF i = 0 THEN [some |-> TRUE, val |-> init]
            ELSE LET prev == acc[i - 1]
                 IN  IF prev.some /\ rel_call(rel, prev.val, s[i])
                     THEN [some |-> TRUE, val |-> N_Int(0)]
                     ELSE [some |-> FALSE, val |-> N_Int(0)]
    IN  acc[Len(s)]

cmp(num, nums, rel) == try_fold(nums, num, rel).some

less_than(num, nums) == cmp(num, nums, "NumberValue::lt")

less_than_or_eq(num, nums) == cmp(num, nums, "NumberValue::le")

greater_than(num, nums) == cmp(num, nums, "NumberValue::gt")

greater_than_or_eq(num, nums) == cmp(num, nums, "NumberValue::ge")

modulo(x, y) == Rem_rem(x, y)

remainder(x, y) == IntOf(i64_rem(x, y))

max(num, nums) == fold(nums, num, "max_val")

min(num, nums) == fold(nums, num, "min_val")

----------------------------------------------------------------------------
(* Character and string constructors (character.rs).  Their integer        *)
(* arguments are far below the word size; they are kept at full scale.     *)

\* u8::try_from with the upper bound off by one
u8_try_from_256(x) == IF 0 <= x /\ x <= 256 THEN Ok(x) ELSE Abort

\* u8::try_from
u8_try_from(x) == IF 0 <= x /\ x <= 255 THEN Ok(x) ELSE Abort

\* int_to_char: the integer as a Unicode scalar value, or an error
int_to_char(x) ==
    IF 0 <= x /\ x <= 1114111 /\ ~(55296 <= x /\ x <= 57343) THEN Ok(x) ELSE Abort

\* char::len_utf8
len_utf8(c) ==
    IF c < 128 THEN 1 ELSE IF c < 2048 THEN 2 ELSE IF c < 65536 THEN 3 ELSE 4

\* the bytes String::push appends for a char
encode_utf8(c) ==
    CASE len_utf8(c) = 1 -> <<c>>
      [] len_utf8(c) = 2 -> <<192 + (c \div 64), 128 + (c % 64)>>
      [] len_utf8(c) = 3 ->
            <<224 + (c \div 4096), 128 + ((c \div 64) % 64), 128 + (c % 64)>>
      [] OTHER ->
            <<240 + (c \div 262144), 128 + ((c \div 4096) % 64),
              128 + ((c \div 64) % 64), 128 + (c % 64)>>

\* the outcome of a call
NoResult == [kind |-> "none", val |-> None, flag |-> FALSE, bytes |-> <<>>]

NumberResult(n) ==
    IF n.tag = "Panic"
    THEN [kind |-> "panic", val |-> None, flag |-> FALSE, bytes |-> <<>>]
    ELSE [kind |-> "number", val |-> n, flag |-> FALSE, bytes |-> <<>>]

BoolResult(b) == [kind |-> "bool", val |-> None, flag |-> b, bytes |-> <<>>]

ErrResult == [kind |-> "err", val |-> None, flag |-> FALSE, bytes |-> <<>>]

BytesResult(b) == [kind |-> "bytes", val |-> None, flag |-> FALSE, bytes |-> b]

StringResult(b) == [kind |-> "string", val |-> None, flag |-> FALSE, bytes |-> b]

\* collect::<Result<Vec<_>, _>>() over a conversion: the first failure wins
conv_call(conv, x) ==
    CASE conv = "u8::try_from" -> u8_try_from(x)
      [] conv = "int_to_char" -> int_to_char(x)

collect(xs, conv) ==
    IF \E i \in 1..Len(xs) : ~conv_call(conv, xs[i]).ok THEN Abort
    ELSE Ok([i \in 1..Len(xs) |-> conv_call(conv, xs[i]).v])

unibyte_string(bytes) ==
    LET unibyte == collect(bytes, "u8::try_from")
    IN  IF unibyte.ok THEN BytesResult(unibyte.v) ELSE ErrResult

\* the String built by pushing the chars in order
concat_utf8(chars) ==
    LET out[i \in 0..Len(chars)] ==
            IF i = 0 THEN <<>> ELSE out[i - 1] \o encode_utf8(chars[i])
    IN  out[Len(chars)]

string(characters) ==
    LET chars == collect(characters, "int_to_char")
    IN  IF chars.ok THEN StringResult(concat_utf8(chars.v)) ELSE ErrResult

\* make_string that picks the layout from the value of init
make_string_by_value(length, init, mb) ==
    IF mb \/ init > 255
    THEN LET chr == int_to_char(init)
         IN  IF chr.ok
             THEN StringResult(concat_utf8([i \in 1..length |-> chr.v]))
             ELSE ErrResult
    ELSE BytesResult([i \in 1..length |-> init])

make_string(length, init, mb) ==
    IF mb
    THEN LET chr == int_to_char(init)
         IN  IF chr.ok
             THEN StringResult(concat_utf8([i \in 1..length |-> chr.v]))
             ELSE ErrResult
    ELSE LET chr == u8_try_from(init)
         IN  IF chr.ok
             THEN BytesResult([i \in 1..length |-> chr.v])
             ELSE ErrResult

----------------------------------------------------------------------------
(* Operands the evaluator passes in *)

F(n, d) == N_Float(Fin(RoundQ(n * FUnit, d)))

\* Int operands come out of tagged objects, which hold fixnums
Ints == {N_Int(x) : x \in {MIN_FIXNUM, -1, 0, 1, 2, 3, MAX_FIXNUM - 1, MAX_FIXNUM}}

Bigs == {N_Big(x) : x \in {0, MAX_FIXNUM + 1}}

Floats == {F(0, 1), F(1, 1), F(3, 2), F(MAX_FIXNUM + 1, 1), N_Float(NaN)}

Operands == Ints \cup Bigs \cup Floats

\* further operands for the unary and binary operations
WideOperands ==
    Operands \cup {N_Big(MIN_FIXNUM - 1), N_Big(MIN_FIXNUM), N_Big(MAX_FIXNUM),
                   N_Big(1), F(-3, 2), F(11, 2), F(MIN_FIXNUM, 1),
                   F(2 * (MAX_FIXNUM + 1), 1), F(2 * MIN_FIXNUM, 1),
                   N_Float(Infinity(1)), N_Float(Infinity(-1))}

\* operands of `*`: products of three stay inside the integers TLC handles
MulOperands == Operands \ {F(MAX_FIXNUM + 1, 1)}

CodePoints == {-1, 0, 65, 127, 128, 255, 256, 258, 2047, 2048, 55295,
               55296, 57343, 57344, 65535, 65536, 128512, 1114111, 1114112}

SeqsUpTo(S, n) == UNION {[1..k -> S] : k \in 0..n}

----------------------------------------------------------------------------
(* The state machine: the evaluator calls one built-in at a time and      *)
(* takes its outcome before the next call                                 *)

Init ==
    /\ overflow_checks \in BOOLEAN
    /\ call = "none"
    /\ number = None
    /\ numbers = <<>>
    /\ ints = <<>>
    /\ multibyte = FALSE
    /\ result = NoResult

\* the evaluator is between two calls
Idle == call = "none"

Numeric(name, num, nums, res) ==
    /\ call' = name
    /\ number' = num
    /\ numbers' = nums
    /\ ints' = <<>>
    /\ multibyte' = FALSE
    /\ result' = res
    /\ UNCHANGED overflow_checks

Textual(name, is, mb, res) ==
    /\ call' = name
    /\ number' = None
    /\ numbers' = <<>>
    /\ ints' = is
    /\ multibyte' = mb
    /\ result' = res
    /\ UNCHANGED overflow_checks

CoerceInteger ==
    /\ Idle
    /\ \E x \in WideOperands :
           Numeric("coerce_integer", x, <<>>, NumberResult(coerce_integer(x)))

ArithAdd ==
    /\ Idle
    /\ \E a \in WideOperands, b \in WideOperands :
           Numeric("Add::add", a, <<b>>, NumberResult(Add_add(a, b)))

ArithSub ==
    /\ Idle
    /\ \E a \in WideOperands, b \in WideOperands :
           Numeric("Sub::sub", a, <<b>>, NumberResult(Sub_sub(a, b)))

ArithMul ==
    /\ Idle
    /\ \E a \in WideOperands, b \in WideOperands :
           Numeric("Mul::mul", a, <<b>>, NumberResult(Mul_mul(a, b)))

ArithDiv ==
    /\ Idle
    /\ \E a \in WideOperands, b \in WideOperands :
           Numeric("Div::div", a, <<b>>, NumberResult(Div_div(a, b)))

ArithRem ==
    /\ Idle
    /\ \E a \in WideOperands, b \in WideOperands :
           Numeric("Rem::rem", a, <<b>>, NumberResult(Rem_rem(a, b)))

ArithNeg ==
    /\ Idle
    /\ \E a \in WideOperands :
           Numeric("Neg::neg", a, <<>>, NumberResult(Neg_neg(a)))

CallAdd ==
    /\ Idle
    /\ \E xs \in SeqsUpTo(Operands, MaxArgs) :
           Numeric("+", None, xs, NumberResult(add(xs)))

CallSub ==
    /\ Idle
    /\ \/ Numeric("-", None, <<>>, NumberResult(sub(None, <<>>)))
       \/ \E x \in Operands, xs \in SeqsUpTo(Operands, MaxArgs) :
             Numeric("-", x, xs, NumberResult(sub(x, xs)))

CallMul ==
    /\ Idle
    /\ \E xs \in SeqsUpTo(MulOperands, MaxArgs) :
           Numeric("*", None, xs, NumberResult(mul(xs)))

CallDiv ==
    /\ Idle
    /\ \E x \in Operands, xs \in SeqsUpTo(Operands, MaxArgs) :
           Numeric("/", x, xs, NumberResult(div(x, xs)))

CallAddOne ==
    /\ Idle
    /\ \E x \in WideOperands : Numeric("1+", x, <<>>, NumberResult(add_one(x)))


CallSubOne ==
    /\ Idle
    /\ \E x \in WideOperands : Numeric("1-", x, <<>>, NumberResult(sub_one(x)))


CallNumEq ==
    /\ Idle
    /\ \E x \in Operands, xs \in SeqsUpTo(Operands, MaxArgs) :
           Numeric("=", x, xs, BoolResult(num_eq(x, xs)))

CallNumNe ==
    /\ Idle
    /\ \E x \in Operands, xs \in SeqsUpTo(Operands, MaxArgs) :
           Numeric("/=", x, xs, BoolResult(num_ne(x, xs)))

CallLessThan ==
    /\ Idle
    /\ \E x \in Operands, xs \in SeqsUpTo(Operands, MaxArgs) :
           Numeric("<", x, xs, BoolResult(less_than(x, xs)))

CallLessThanOrEq ==
    /\ Idle
    /\ \E x \in Operands, xs \in SeqsUpTo(Operands, MaxArgs) :
           Numeric("<=", x, xs, BoolResult(less_than_or_eq(x, xs)))

CallGreaterThan ==
    /\ Idle
    /\ \E x \in Operands, xs \in SeqsUpTo(Operands, MaxArgs) :
           Numeric(">", x, xs, BoolResult(greater_than(x, xs)))

CallGreaterThanOrEq ==
    /\ Idle
    /\ \E x \in Operands, xs \in SeqsUpTo(Operands, MaxArgs) :
           Numeric(">=", x, xs, BoolResult(greater_than_or_eq(x, xs)))

CallModulo ==
    /\ Idle
    /\ \E x \in WideOperands, y \in WideOperands :
           Numeric("mod", x, <<y>>, NumberResult(modulo(x, y)))

CallRemainder ==
    /\ Idle
    /\ \E x \in Ints, y \in Ints :
           Numeric("%", x, <<y>>, NumberResult(remainder(x.v, y.v)))

CallMax ==
    /\ Idle
    /\ \E x \in Operands, xs \in SeqsUpTo(Operands, MaxArgs) :
           Numeric("max", x, xs, NumberResult(max(x, xs)))

CallMin ==
    /\ Idle
    /\ \E x \in Operands, xs \in SeqsUpTo(Operands, MaxArgs) :
           Numeric("min", x, xs, NumberResult(min(x, xs)))

CallUnibyteString ==
    /\ Idle
    /\ \E bytes \in SeqsUpTo(CodePoints, MaxLength) :
           Textual("unibyte-string", bytes, FALSE, unibyte_string(bytes))

CallString ==
    /\ Idle
    /\ \E characters \in SeqsUpTo(CodePoints, MaxLength) :
           Textual("string", characters, FALSE, string(characters))

\* length and init are usize: negative arguments never reach make_string
CallMakeString ==
    /\ Idle
    /\ \E length \in 0..(MaxLength + 1), init \in CodePoints \ {-1}, mb \in BOOLEAN :
           Textual("make-string", <<length, init>>, mb, make_string(length, init, mb))

\* the evaluator takes the outcome and is ready for the next call
Return ==
    /\ call # "none"
    /\ call' = "none"
    /\ number' = None
    /\ numbers' = <<>>
    /\ ints' = <<>>
    /\ multibyte' = FALSE
    /\ result' = NoResult
    /\ UNCHANGED overflow_checks

Next ==
    \/ Return
    \/ CoerceInteger
    \/ ArithAdd \/ ArithSub \/ ArithMul \/ ArithDiv \/ ArithRem \/ ArithNeg
    \/ CallAdd \/ CallSub \/ CallMul \/ CallDiv \/ CallAddOne \/ CallSubOne
    \/ CallNumEq \/ CallNumNe
    \/ CallLessThan \/ CallLessThanOrEq \/ CallGreaterThan \/ CallGreaterThanOrEq
    \/ CallModulo \/ CallRemainder \/ CallMax \/ CallMin
    \/ CallUnibyteString \/ CallString \/ CallMakeString

Spec == Init /\ [][Next]_vars

TypeOK ==
    /\ overflow_checks \in BOOLEAN
    /\ result.kind \in {"none", "number", "bool", "panic", "err", "bytes", "string"}

----------------------------------------------------------------------------
(* Properties *)

\* the leading operand followed by the trailing operands
Full == IF number = None THEN numbers ELSE <<number>> \o numbers

InFixnumRange(x) == MIN_FIXNUM <= x /\ x <= MAX_FIXNUM

\* Int inside the fixnum range, Big outside of it
Canonical(n) ==
    CASE n.tag = "Int" -> InFixnumRange(n.v)
      [] n.tag = "Big" -> ~InFixnumRange(n.v)
      [] OTHER -> TRUE

IsInteger(n) == n.tag \in {"Int", "Big"}

Holds(rel, a, b) ==
    CASE rel = "<" -> lt(a, b)
      [] rel = "<=" -> le(a, b)
      [] rel = ">" -> gt(a, b)
      [] OTHER -> ge(a, b)

\* C1: an ordered comparison is true exactly when every element of the full
\* sequence (leading operand, then the trailing ones) satisfies the relation
\* against the element immediately before it.
C1_AdjacentPairwiseChain ==
    call \in {"<", "<=", ">", ">="} =>
        (result.flag <=>
            \A i \in 1..(Len(Full) - 1) : Holds(call, Full[i], Full[i + 1]))

ArithCalls == {"Add::add", "Sub::sub", "Mul::mul", "Div::div", "Rem::rem"}

\* the promotion table: Float absorbs everything, Big absorbs Int
Promoted(a, b) ==
    IF a.tag = "Float" \/ b.tag = "Float" THEN "Float"
    ELSE IF a.tag = "Big" \/ b.tag = "Big" THEN "Big"
    ELSE "Int"

AsFloat(n) == IF n.tag = "Float" THEN f64_of(n) ELSE Fin(RoundQ(n.v * FUnit, 1))

\* C2: arith returns the variant of the promotion table and applies the
\* operator of that variant to the promoted operands, left operand first,
\* in all nine pairings.
C2_PromotionTable ==
    call \in ArithCalls =>
        LET a == number
            b == numbers[1]
            variant == Promoted(a, b)
        IN  /\ result.kind = "number" => result.val.tag = variant
            /\ variant = "Int" =>
                  result = NumberResult(IntOf(int_call(call, a.v, b.v)))
            /\ variant = "Float" =>
                  result = NumberResult(N_Float(float_call(call, AsFloat(a), AsFloat(b))))
            /\ variant = "Big" =>
                  result = NumberResult(BigOf(big_call(call, a.v, b.v)))

\* C2 witness: Big - Int stays Big and subtracts the right operand from the left
C2_Witness ==
    /\ call = "Sub::sub"
    /\ number = N_Big(MAX_FIXNUM + 1)
    /\ numbers = <<N_Int(3)>>
    /\ result = NumberResult(N_Big(MAX_FIXNUM - 2))

\* C3: an integer division or modulo by zero is reported to the caller as
\* an error outcome, never a number and never a panic; for divide the zero
\* may stand anywhere in the trailing sequence.
C3_ZeroDivisorReported ==
    /\ (/\ call = "/"
        /\ number.tag = "Int"
        /\ \E i \in 1..Len(numbers) : numbers[i] = N_Int(0))
       => result.kind = "err"
    /\ (/\ call \in {"mod", "%"}
        /\ number.tag = "Int"
        /\ numbers = <<N_Int(0)>>)
       => result.kind = "err"

\* C4: add, subtract, multiply, 1+, 1- and negation on canonical operands
\* return a canonical number: an Int inside the fixnum range, a Big outside.
C4_CanonicalResults ==
    (/\ call \in {"+", "-", "*", "1+", "1-", "Neg::neg"}
     /\ \A i \in 1..Len(Full) : Canonical(Full[i])
     /\ result.kind = "number")
    => Canonical(result.val)

RECURSIVE Sum(_)
Sum(s) == IF s = <<>> THEN 0 ELSE s[1] + Sum(Tail(s))

\* the value of the opposite sign in the same variant
Negated(n) ==
    CASE n.cls = "pinf" -> [n EXCEPT !.cls = "ninf"]
      [] n.cls = "ninf" -> [n EXCEPT !.cls = "pinf"]
      [] OTHER -> [n EXCEPT !.v = 0 - n.v]

\* x - y1 - ... - yn, taken from the right end of the sequence
RECURSIVE LeftDifference(_, _)
LeftDifference(x, ys) ==
    IF ys = <<>> THEN x
    ELSE Sub_sub(LeftDifference(x, SubSeq(ys, 1, Len(ys) - 1)), ys[Len(ys)])

\* C5: with no trailing operands add gives Int(0), multiply Int(1), divide
\* its leading operand unchanged, subtract Int(0) without operand and the
\* negation of its only operand in the same variant; with trailing operands
\* subtract is the left fold x - y1 - ... - yn.
C5_EmptySequenceIdentities ==
    /\ (call = "+" /\ numbers = <<>>) => result = NumberResult(N_Int(0))
    /\ (call = "*" /\ numbers = <<>>) => result = NumberResult(N_Int(1))
    /\ (call = "/" /\ numbers = <<>>) => result = NumberResult(number)
    /\ (call = "-" /\ number = None) => result = NumberResult(N_Int(0))
    /\ (call = "-" /\ number # None /\ numbers = <<>>) =>
          result = NumberResult(Negated(number))
    /\ (call = "-" /\ number # None /\ numbers # <<>>) =>
          /\ result = NumberResult(LeftDifference(number, numbers))
          /\ (\A i \in 1..Len(Full) : Full[i].tag = "Int") =>
                result = NumberResult(N_Int(
                    number.v - Sum([i \in 1..Len(numbers) |-> numbers[i].v])))

\* C5 witness: subtract with a single operand negates it
C5_Witness ==
    /\ call = "-"
    /\ number = N_Int(2)
    /\ numbers = <<>>
    /\ result = NumberResult(N_Int(-2))

Comparable ==
    \A i \in 1..Len(Full) : \A j \in 1..Len(Full) :
        partial_cmp(Full[i], Full[j]) # "None"

IsOperand == \E i \in 1..Len(Full) : result.val = Full[i]

IsExtreme ==
    \A i \in 1..Len(Full) :
        IF call = "max" THEN ge(result.val, Full[i]) ELSE le(result.val, Full[i])

\* no operand comparing equal to the result stands to the right of the
\* last operand that is the result
RightmostOfEquals ==
    \A i \in 1..Len(Full) :
        partial_cmp(Full[i], result.val) = "Equal" =>
            \E j \in i..Len(Full) : Full[j] = result.val

\* every comparison between two operands is the comparison of their values:
\* no Float among them, or no integer that the conversion to float rounds
ExactlyComparable ==
    \/ \A i \in 1..Len(Full) : Full[i].tag # "Float"
    \/ \A i \in 1..Len(Full) :
          IsInteger(Full[i]) => Representable(Full[i].v * FUnit)

\* C6 as stated: on mutually comparable operands max (min) returns an
\* operand that is >= (<=) every operand, the rightmost among equal ones.
C6_MaxMinAsStated ==
    (call \in {"max", "min"} /\ Comparable) =>
        IsOperand /\ IsExtreme /\ RightmostOfEquals

\* C6 (amended): on mutually comparable operands max and min return one of
\* the operands, the rightmost among those comparing equal to it; the result
\* is >= (<=) every operand when the operands hold no Float or no integer
\* that changes value when converted to float.
C6_MaxMin ==
    (call \in {"max", "min"} /\ Comparable) =>
        /\ IsOperand
        /\ RightmostOfEquals
        /\ ExactlyComparable => IsExtreme

\* C6 witness: Int 1 and Float 1.0 tie, the later Float is returned
C6_Witness ==
    /\ call = "max"
    /\ number = N_Int(1)
    /\ numbers = <<F(1, 1)>>
    /\ result = NumberResult(F(1, 1))

\* String::chars: the scalar values a UTF-8 byte sequence encodes
RECURSIVE decode_utf8(_)
decode_utf8(b) ==
    IF b = <<>> THEN <<>>
    ELSE LET h == b[1]
             n == IF h < 128 THEN 1 ELSE IF h < 224 THEN 2 ELSE IF h < 240 THEN 3 ELSE 4
             c == CASE n = 1 -> h
                    [] n = 2 -> (h - 192) * 64 + (b[2] - 128)
                    [] n = 3 -> (h - 224) * 4096 + (b[2] - 128) * 64 + (b[3] - 128)
                    [] OTHER -> (h - 240) * 262144 + (b[2] - 128) * 4096
                                + (b[3] - 128) * 64 + (b[4] - 128)
         IN  <<c>> \o decode_utf8(SubSeq(b, n + 1, Len(b)))

IsByte(x) == 0 <= x /\ x < 256

IsUnicodeScalar(x) == (0 <= x /\ x <= 55295) \/ (57344 <= x /\ x <= 1114111)

\* C7: unibyte-string fails exactly when an input is outside [0, 255] and
\* string exactly when an input is no Unicode scalar; a success holds one
\* element per input, in order, equal to the input; a failure holds nothing.
C7_AllOrNothing ==
    /\ call = "unibyte-string" =>
          /\ result.kind = "err" <=> \E i \in 1..Len(ints) : ~IsByte(ints[i])
          /\ result.kind # "err" => result.kind = "bytes" /\ result.bytes = ints
          /\ result.kind = "err" => result.bytes = <<>>
    /\ call = "string" =>
          /\ result.kind = "err" <=> \E i \in 1..Len(ints) : ~IsUnicodeScalar(ints[i])
          /\ result.kind # "err" =>
                result.kind = "string" /\ decode_utf8(result.bytes) = ints
          /\ result.kind = "err" => result.bytes = <<>>

\* C7 witness: a valid byte before an invalid one yields the error alone
C7_Witness ==
    /\ call = "unibyte-string"
    /\ ints = <<255, 258>>
    /\ result = ErrResult

\* C8: without the multibyte flag make-string gives `length` bytes equal to
\* init, or an error when init is above 255; with the flag it gives `length`
\* copies of the scalar init, length * len_utf8(init) bytes long, or an error
\* when init is no Unicode scalar; the flag alone decides the layout.
C8_MakeRepeated ==
    call = "make-string" =>
        LET length == ints[1]
            init == ints[2]
        IN  /\ ~multibyte =>
                  IF IsByte(init)
                  THEN /\ result.kind = "bytes"
                       /\ Len(result.bytes) = length
                       /\ \A i \in 1..length : result.bytes[i] = init
                  ELSE result = ErrResult
            /\ multibyte =>
                  IF IsUnicodeScalar(init)
                  THEN /\ result.kind = "string"
                       /\ decode_utf8(result.bytes) = [i \in 1..length |-> init]
                       /\ Len(result.bytes) = length * len_utf8(init)
                  ELSE result = ErrResult

\* C8 witness: a scalar above 255 without the flag is refused
C8_Witness ==
    /\ call = "make-string"
    /\ ints = <<2, 256>>
    /\ ~multibyte
    /\ result = ErrResult

\* C9: over Int and Big operands `=` is true exactly when every trailing
\* operand has the value of the leading one, whatever the variants, and `/=`
\* exactly when every trailing operand has another value than the leading one.
C9_IntegerEquality ==
    (call \in {"=", "/="} /\ \A i \in 1..Len(Full) : IsInteger(Full[i])) =>
        /\ call = "=" =>
              (result.flag <=> \A i \in 1..Len(numbers) : numbers[i].v = number.v)
        /\ call = "/=" =>
              (result.flag <=> \A i \in 1..Len(numbers) : numbers[i].v # number.v)

\* C9 witness: Int 0 equals Big 0
C9_Witness ==
    /\ call = "="
    /\ number = N_Int(0)
    /\ numbers = <<N_Big(0)>>
    /\ result = BoolResult(TRUE)

\* C10: coerce_integer turns a Big into the Int of its value exactly when the
\* value is inside the fixnum range, leaves an Int alone, turns a Float with
\* an integral value inside the fixnum range into that Int, is idempotent,
\* and never returns a Big that fits in the fixnum range.
C10_CoerceInteger ==
    call = "coerce_integer" =>
        /\ number.tag = "Big" =>
              result.val = IF InFixnumRange(number.v) THEN N_Int(number.v) ELSE number
        /\ number.tag = "Int" => result.val = number
        /\ (/\ number.tag = "Float"
            /\ number.cls = "fin"
            /\ number.v % FUnit = 0
            /\ InFixnumRange(number.v \div FUnit))
           => result.val = N_Int(number.v \div FUnit)
        /\ coerce_integer(result.val) = result.val
        /\ ~(result.val.tag = "Big" /\ InFixnumRange(result.val.v))

====
